---- MODULE Spec2Model ----
(***************************************************************************)
(* Model of app.py: the Flask upload handler (index), the PDF table        *)
(* extractor (extrair_dados_do_pdf) and the template filler                *)
(* (preencher_planilha_template), with the file system and the wall clock  *)
(* they share.                                                             *)
(*                                                                         *)
(* A Python str is a sequence of one-character strings, so that strip,     *)
(* upper, lower, replace, rsplit and float are computed, not assumed.      *)
(* A Python value (None, str, float) is a record [t, s, m, e]: t its type, *)
(* s the characters of a str, and m / 10^e the value of a float (m an      *)
(* integer, normalised so that m is not a multiple of 10 unless e = 0).    *)
(***************************************************************************)
EXTENDS Integers, Sequences, FiniteSets, TLC

(***************************************************************************)
(* Bounds of the model.                                                    *)
(***************************************************************************)
\* requests and direct calls of one run of the server, a thread for each
NumThreads == 2
\* the clock runs over the seconds 0 .. MaxClock
MaxClock == 1
\* every text of at most this many characters over MoneyAlphabet is tried as
\* the cell at index 14
MaxCellLen == 3
\* data rows of a table of the extractor's inputs
MaxRows == 2

(***************************************************************************)
(* Python values and str methods.                                          *)
(***************************************************************************)
None == [t |-> "None", s |-> <<>>, m |-> 0, e |-> 0]

Str(cs) == [t |-> "str", s |-> cs, m |-> 0, e |-> 0]

RECURSIVE NormFloat(_, _)
NormFloat(m, e) ==
    IF m = 0 THEN [t |-> "float", s |-> <<>>, m |-> 0, e |-> 0]
    ELSE IF e > 0 /\ m % 10 = 0 THEN NormFloat(m \div 10, e - 1)
    ELSE [t |-> "float", s |-> <<>>, m |-> m, e |-> e]

Float(m, e) == NormFloat(m, e)

\* bool(v) of a cell value: None and "" are falsy
Truthy(v) == v.t # "None" /\ ~(v.t = "str" /\ v.s = <<>>)

Whitespace == {" ", "\t", "\n"}

RECURSIVE LStrip(_)
LStrip(cs) ==
    IF cs # <<>> /\ Head(cs) \in Whitespace THEN LStrip(Tail(cs)) ELSE cs

RECURSIVE RStrip(_)
RStrip(cs) ==
    IF cs # <<>> /\ cs[Len(cs)] \in Whitespace
    THEN RStrip(SubSeq(cs, 1, Len(cs) - 1)) ELSE cs

\* str.strip()
Strip(cs) == RStrip(LStrip(cs))

LowerLetters ==
    <<"a", "b", "c", "d", "e", "f", "g", "h", "i", "j", "k", "l", "m",
      "n", "o", "p", "q", "r", "s", "t", "u", "v", "w", "x", "y", "z">>

UpperLetters ==
    <<"A", "B", "C", "D", "E", "F", "G", "H", "I", "J", "K", "L", "M",
      "N", "O", "P", "Q", "R", "S", "T", "U", "V", "W", "X", "Y", "Z">>

IndexIn(letters, c) ==
    IF \E i \in 1..Len(letters) : letters[i] = c
    THEN CHOOSE i \in 1..Len(letters) : letters[i] = c
    ELSE 0

\* str.upper(), on the ASCII letters
Upper(cs) ==
    [i \in 1..Len(cs) |->
        IF IndexIn(LowerLetters, cs[i]) > 0
        THEN UpperLetters[IndexIn(LowerLetters, cs[i])] ELSE cs[i]]

\* str.lower(), on the ASCII letters
Lower(cs) ==
    [i \in 1..Len(cs) |->
        IF IndexIn(UpperLetters, cs[i]) > 0
        THEN LowerLetters[IndexIn(UpperLetters, cs[i])] ELSE cs[i]]

StartsWith(cs, old) ==
    Len(cs) >= Len(old) /\ SubSeq(cs, 1, Len(old)) = old

\* str.replace(old, new) for a non-empty old: leftmost, non-overlapping
RECURSIVE Replace(_, _, _)
Replace(cs, old, new) ==
    IF cs = <<>> THEN <<>>
    ELSE IF StartsWith(cs, old)
         THEN new \o Replace(SubSeq(cs, Len(old) + 1, Len(cs)), old, new)
         ELSE <<Head(cs)>> \o Replace(Tail(cs), old, new)

Digits == <<"0", "1", "2", "3", "4", "5", "6", "7", "8", "9">>

IsDigit(c) == IndexIn(Digits, c) > 0

RECURSIVE DigitsValue(_)
DigitsValue(cs) ==
    IF cs = <<>> THEN 0
    ELSE 10 * DigitsValue(SubSeq(cs, 1, Len(cs) - 1))
         + (IndexIn(Digits, cs[Len(cs)]) - 1)

(***************************************************************************)
(* float(text) on texts without letters of the float grammar (no exponent, *)
(* inf, nan or underscore): optional surrounding whitespace, an optional   *)
(* sign, digits with at most one point and at least one digit.  Anything   *)
(* else raises ValueError.  The result is [raised, val].                   *)
(***************************************************************************)
float(cs) ==
    LET txt == Strip(cs)
        signed == txt # <<>> /\ Head(txt) \in {"-", "+"}
        body == IF signed THEN Tail(txt) ELSE txt
        points == {i \in 1..Len(body) : body[i] = "."}
        wellFormed ==
            /\ \A i \in 1..Len(body) : body[i] = "." \/ IsDigit(body[i])
            /\ Cardinality(points) <= 1
            /\ \E i \in 1..Len(body) : IsDigit(body[i])
        frac == IF points = {} THEN 0
                ELSE Len(body) - (CHOOSE i \in points : TRUE)
        mag == DigitsValue(SelectSeq(body, IsDigit))
    IN  IF wellFormed
        THEN [raised |-> FALSE,
              val |-> Float(IF signed /\ Head(txt) = "-" THEN 0 - mag ELSE mag,
                            frac)]
        ELSE [raised |-> TRUE, val |-> None]

(***************************************************************************)
(* extrair_dados_do_pdf.  A PDF is [readable, pages]; a page is what       *)
(* page.extract_table() returns for it: [none, rows], none for a page      *)
(* without a table; a row is [none, cells], none for a row that is None.   *)
(* Indices are Python's (0-based): linha[k] is cells[k + 1].               *)
(***************************************************************************)
HeaderLabel ==
    <<"N", "O", "M", "E", " ", "D", "O", " ", "P", "R", "O", "F", "I", "S",
      "S", "I", "O", "N", "A", "L">>

Cell(linha, k) == linha.cells[k + 1]

\* not linha or len(linha) < 2
ShortRow(linha) == linha.none \/ Len(linha.cells) = 0 \/ Len(linha.cells) < 2

\* nome = (linha[1] or "").strip()
nome(linha) ==
    Strip(IF Truthy(Cell(linha, 1)) THEN Cell(linha, 1).s ELSE <<>>)

\* the two `continue`s of the row loop
SkippedRow(linha) ==
    \/ ShortRow(linha)
    \/ nome(linha) = <<>>
    \/ Upper(nome(linha)) = HeaderLabel

\* the body of the try block: [raised, val]
ValorTry(linha) ==
    IF Len(linha.cells) > 14 /\ Truthy(Cell(linha, 14))
    THEN LET raw == Strip(Replace(Replace(Replace(Cell(linha, 14).s,
                              <<"R", "$">>, <<>>), <<".">>, <<>>),
                              <<",">>, <<".">>))
         IN  IF raw # <<>> THEN float(raw)
             ELSE [raised |-> FALSE, val |-> Float(0, 0)]
    ELSE [raised |-> FALSE, val |-> Float(0, 0)]

\* the try block without its except clause: a ValueError leaves the row loop
ValorUncaught(linha) == ValorTry(linha)

\* valor_total after try/except: [raised, val], never raised
valor_total(linha) ==
    IF ValorTry(linha).raised
    THEN [raised |-> FALSE, val |-> Float(0, 0)]
    ELSE ValorTry(linha)

chave_pix(linha) ==
    IF Len(linha.cells) > 3 /\ Truthy(Cell(linha, 3))
    THEN Strip(Cell(linha, 3).s) ELSE <<>>

\* datetime.now().strftime('%d/%m/%Y') with the clock at second now
\* (days of January 1970)
strftime(now) ==
    LET dd == 1 + (now \div 86400)
    IN  <<Digits[(dd \div 10) + 1], Digits[(dd % 10) + 1], "/", "0", "1",
          "/", "1", "9", "7", "0">>

Registro(linha, now) ==
      ("Fornecedor" :> Str(nome(linha)))
   @@ ("Categoria" :> Str(<<"P", "r", "e", "s", "t", "a", "ç", "ã", "o", " ",
                            "d", "e", " ", "S", "e", "r", "v", "i", "ç", "o",
                            "s", " ", "M", "é", "d", "i", "c", "o", "s">>))
   @@ ("Conta Corrente" :> Str(<<"O", "m", "i", "e", ".", "C", "A", "S", "H">>))
   @@ ("Valor da Conta" :> valor_total(linha).val)
   @@ ("Projeto" :> Str(<<"P", "r", "o", "j", "e", "t", "o", " ", "P", "a",
                          "d", "r", "ã", "o">>))
   @@ ("Data de Emissão" :> Str(strftime(now)))
   @@ ("Data de Registro" :> Str(strftime(now)))
   @@ ("Data de Vencimento" :> Str(<<"1", "5", "/", "0", "8", "/", "2", "0",
                                     "2", "5">>))
   @@ ("Valor do Pagamento" :> valor_total(linha).val)
   @@ ("Data de Conciliação" :> Str(<<>>))
   @@ ("Observações" :> Str(<<>>))
   @@ ("Chave Pix" :> Str(chave_pix(linha)))
   @@ ("Departamento (100%)" :> Str(<<"F", "i", "n", "a", "n", "c", "e", "i",
                                      "r", "o">>))

\* the table with its first row kept
DataRowsAll(tabela) == tabela.rows

\* tabela[1:]
DataRows(tabela) == SubSeq(tabela.rows, 2, Len(tabela.rows))

\* the row loop over linhas, appending to acc = [raised, registros]
RECURSIVE ExtractRows(_, _, _)
ExtractRows(linhas, now, acc) ==
    IF linhas = <<>> \/ acc.raised THEN acc
    ELSE LET linha == Head(linhas)
         IN  IF SkippedRow(linha) THEN ExtractRows(Tail(linhas), now, acc)
             ELSE IF valor_total(linha).raised
                  THEN [raised |-> TRUE, registros |-> acc.registros]
                  ELSE ExtractRows(Tail(linhas), now,
                          [raised |-> FALSE,
                           registros |-> Append(acc.registros,
                                                Registro(linha, now))])

\* the page loop
RECURSIVE ExtractPages(_, _, _)
ExtractPages(pages, now, acc) ==
    IF pages = <<>> \/ acc.raised THEN acc
    ELSE LET tabela == Head(pages)
         IN  IF tabela.none \/ tabela.rows = <<>>
             THEN ExtractPages(Tail(pages), now, acc)
             ELSE ExtractPages(Tail(pages), now,
                               ExtractRows(DataRows(tabela), now, acc))

\* [raised, registros]; pdfplumber.open raises on a file it cannot read
extrair_dados_do_pdf(pdf, now) ==
    IF ~pdf.readable THEN [raised |-> TRUE, registros |-> <<>>]
    ELSE ExtractPages(pdf.pages, now, [raised |-> FALSE, registros |-> <<>>])

(***************************************************************************)
(* Files.  A path is [dir, name], name a str.  A file is [kind, wb, pdf]:  *)
(* kind "absent" for no file at the path, "xlsx" with its workbook in wb,  *)
(* "pdf" with its document in pdf.  A workbook is the sequence of its      *)
(* sheets [name, cells]; cells maps <<row, column>> of every cell the      *)
(* sheet holds to its value.                                               *)
(***************************************************************************)
UPLOAD_FOLDER == "uploads"

APP_FOLDER == "."

Join(dir, name) == [dir |-> dir, name |-> name]

TEMPLATE_XLSX ==
    Join(APP_FOLDER, <<"p", "l", "a", "n", "i", "l", "h", "a", "_", "t", "e",
                       "s", "t", "e", ".", "x", "l", "s", "x">>)

ABA_DESTINO == "Omie_Contas_Pagar"

ALLOWED_EXTENSIONS == {<<"p", "d", "f">>}

NoPath == Join("", <<>>)

NoPdf == [readable |-> FALSE, pages |-> <<>>]

Absent == [kind |-> "absent", wb |-> <<>>, pdf |-> NoPdf]

Xlsx(wb) == [kind |-> "xlsx", wb |-> wb, pdf |-> NoPdf]

PdfFile(pdf) == [kind |-> "pdf", wb |-> <<>>, pdf |-> pdf]

\* filename.rsplit(".", 1)[1] for a filename that holds a "."
RECURSIVE AfterLastDot(_)
AfterLastDot(cs) ==
    IF \E i \in 1..Len(cs) : cs[i] = "."
    THEN AfterLastDot(Tail(cs))
    ELSE cs

allowed_file(filename) ==
    /\ \E i \in 1..Len(filename) : filename[i] = "."
    /\ Lower(AfterLastDot(filename)) \in ALLOWED_EXTENSIONS

RECURSIVE StripDotUnderscore(_)
StripDotUnderscore(cs) ==
    IF cs # <<>> /\ Head(cs) \in {".", "_"} THEN StripDotUnderscore(Tail(cs))
    ELSE IF cs # <<>> /\ cs[Len(cs)] \in {".", "_"}
         THEN StripDotUnderscore(SubSeq(cs, 1, Len(cs) - 1))
         ELSE cs

SafeChar(c) ==
    \/ IndexIn(LowerLetters, c) > 0
    \/ IndexIn(UpperLetters, c) > 0
    \/ IsDigit(c)
    \/ c \in {".", "_", "-"}

\* werkzeug.utils.secure_filename on a name without whitespace or path
\* separators: drop the characters outside [A-Za-z0-9_.-], then strip "._"
secure_filename(filename) == StripDotUnderscore(SelectSeq(filename, SafeChar))

\* str(n) for n >= 0
RECURSIVE DecimalChars(_)
DecimalChars(n) ==
    IF n < 10 THEN <<Digits[n + 1]>>
    ELSE DecimalChars(n \div 10) \o <<Digits[(n % 10) + 1]>>

\* f"resultado_{timestamp}.xlsx"
resultado_nome(timestamp) ==
    <<"r", "e", "s", "u", "l", "t", "a", "d", "o", "_">>
    \o DecimalChars(timestamp) \o <<".", "x", "l", "s", "x">>

(***************************************************************************)
(* openpyxl: sheetnames, wb[name], ws.max_row, ws.cell(row, column, value) *)
(***************************************************************************)
sheetnames(wb) == {wb[i].name : i \in 1..Len(wb)}

SheetIndex(wb, name) == CHOOSE i \in 1..Len(wb) : wb[i].name = name

RowsOf(cells) == {rc[1] : rc \in DOMAIN cells}

\* 1 for a sheet without cells, else the largest row that holds a cell
max_row(cells) ==
    IF DOMAIN cells = {} THEN 1
    ELSE CHOOSE r \in RowsOf(cells) : \A q \in RowsOf(cells) : q <= r

\* ws.cell(row=row, column=column, value=value), value not None
SetCell(cells, row, column, value) ==
    [rc \in DOMAIN cells \cup {<<row, column>>} |->
        IF rc = <<row, column>> THEN value ELSE cells[rc]]

colunas_mapeamento ==
      ("Fornecedor" :> <<"B">>)
   @@ ("Categoria" :> <<"C">>)
   @@ ("Conta Corrente" :> <<"D">>)
   @@ ("Valor da Conta" :> <<"E">>)
   @@ ("Projeto" :> <<"G">>)
   @@ ("Data de Emissão" :> <<"H">>)
   @@ ("Data de Registro" :> <<"I">>)
   @@ ("Data de Vencimento" :> <<"J">>)
   @@ ("Valor do Pagamento" :> <<"M">>)
   @@ ("Data de Conciliação" :> <<"Q">>)
   @@ ("Observações" :> <<"R">>)
   @@ ("Chave Pix" :> <<"A", "J">>)
   @@ ("Departamento (100%)" :> <<"A", "W">>)

\* the order in which colunas_mapeamento.items() yields the fields
ColunasItems ==
    <<"Fornecedor", "Categoria", "Conta Corrente", "Valor da Conta",
      "Projeto", "Data de Emissão", "Data de Registro",
      "Data de Vencimento", "Valor do Pagamento", "Data de Conciliação",
      "Observações", "Chave Pix", "Departamento (100%)">>

\* openpyxl.utils.column_index_from_string: A = 1 .. Z = 26, AA = 27 ..
RECURSIVE column_index_from_string(_)
column_index_from_string(col_letra) ==
    IF col_letra = <<>> THEN 0
    ELSE 26 * column_index_from_string(SubSeq(col_letra, 1, Len(col_letra) - 1))
         + IndexIn(UpperLetters, col_letra[Len(col_letra)])

\* registro.get(col_nome, "")
RegistroGet(registro, col_nome) ==
    IF col_nome \in DOMAIN registro THEN registro[col_nome] ELSE Str(<<>>)

\* the column from the last letter alone
ColumnOfLastLetter(col_nome) ==
    IndexIn(UpperLetters,
            colunas_mapeamento[col_nome][Len(colunas_mapeamento[col_nome])])

\* the column a field is written to
ColumnOf(col_nome) == column_index_from_string(colunas_mapeamento[col_nome])

\* the inner loop: the fields of one registro into row linha
RECURSIVE WriteFields(_, _, _, _)
WriteFields(cells, linha, registro, items) ==
    IF items = <<>> THEN cells
    ELSE WriteFields(SetCell(cells, linha, ColumnOf(Head(items)),
                             RegistroGet(registro, Head(items))),
                     linha, registro, Tail(items))

\* the first free row with the "+ 1" forgotten
StartRowNoOffset(cells) == max_row(cells)

\* start_row = ws.max_row + 1
StartRow(cells) == max_row(cells) + 1

\* linha = start_row + i
Linha(first, i) == first + i

\* the outer loop: enumerate(dados) from index i on
RECURSIVE WriteRows(_, _, _, _)
WriteRows(cells, first, dados, i) ==
    IF i >= Len(dados) THEN cells
    ELSE WriteRows(WriteFields(cells, Linha(first, i), dados[i + 1],
                               ColunasItems),
                   first, dados, i + 1)

(***************************************************************************)
(* State.                                                                  *)
(***************************************************************************)
VARIABLES
    clock,   \* the second of the last read of time.time / datetime.now
    fs,      \* the file at each path
    pc,      \* where each thread is in index / preencher_planilha_template
    frame,   \* the locals of each thread
    threaded \* app.run(threaded=...): whether requests are served concurrently

vars == <<clock, fs, pc, frame, threaded>>

Threads == 1..NumThreads

NoResponse == [kind |-> "none", flash |-> "", path |-> NoPath]

Redirect(msg) == [kind |-> "redirect", flash |-> msg, path |-> NoPath]

EmptyFrame ==
    [caller |-> "none",
     saved_pdf_path |-> NoPath,
     dados |-> <<>>,
     caminho_template |-> NoPath,
     aba_destino |-> "",
     resultado_path |-> NoPath,
     wb |-> <<>>,
     start_row |-> 0,
     raised |-> "",
     response |-> NoResponse]

(***************************************************************************)
(* Inputs: the template installed beside app.py, the uploads the clients   *)
(* send, and the arguments of direct calls of preencher_planilha_template. *)
(***************************************************************************)
NoCells == [rc \in {} |-> None]

HeaderCells ==
      (<<1, 2>> :> Str(<<"F", "o", "r", "n">>))
   @@ (<<1, 5>> :> Str(<<"V", "a", "l", "o", "r">>))
   @@ (<<1, 6>> :> Str(<<"J", "u", "r", "o", "s">>))

\* a header, one row of data with a formula in column F, and a cell two
\* rows further down (row 3 is empty)
DataCells ==
      HeaderCells
   @@ (<<2, 2>> :> Str(<<"Z", "E">>))
   @@ (<<2, 5>> :> Float(10, 0))
   @@ (<<2, 6>> :> Str(<<"=", "E", "2", "*", "2">>))
   @@ (<<4, 6>> :> Str(<<"=", "E", "4", "*", "2">>))

OtherSheet == [name |-> "Plan1", cells |-> HeaderCells]

TemplateFiles ==
    { Absent,
      Xlsx(<<OtherSheet>>),
      Xlsx(<<[name |-> ABA_DESTINO, cells |-> NoCells]>>),
      Xlsx(<<[name |-> ABA_DESTINO, cells |-> HeaderCells]>>),
      Xlsx(<<OtherSheet, [name |-> ABA_DESTINO, cells |-> DataCells]>>) }

\* a row of n cells, None but for the cells at indices 1, 3 and 14
Row(n, c1, c3, c14) ==
    [none |-> FALSE,
     cells |-> [k \in 1..n |->
                  IF k = 2 THEN c1 ELSE IF k = 4 THEN c3
                  ELSE IF k = 15 THEN c14 ELSE None]]

NoneRow == [none |-> TRUE, cells |-> <<>>]

Table(rows) == [none |-> FALSE, rows |-> rows]

NoTable == [none |-> TRUE, rows |-> <<>>]

Pdf(pages) == [readable |-> TRUE, pages |-> pages]

HeaderRow == Row(15, Str(HeaderLabel), Str(<<"P", "I", "X">>),
                 Str(<<"T", "O", "T", "A", "L">>))

AnaRow == Row(15, Str(<<" ", "A", "n", "a", " ">>), Str(<<"1", "1", " ">>),
              Str(<<"1", ".", "2", "3", "4", ",", "5", "6">>))

BiaRow == Row(16, Str(<<"B", "I", "A">>), None,
              Str(<<"R", "$", " ", "4", "5", ",", "0", "0">>))

\* the uploads of the handler's clients: an unreadable file, a page without
\* a table, a table of a header, a data row and a one-cell row, and two
\* pages with a data row each
UploadPdfs ==
    { NoPdf,
      Pdf(<<NoTable>>),
      Pdf(<<Table(<<HeaderRow, AnaRow, Row(1, None, None, None)>>)>>),
      Pdf(<<Table(<<HeaderRow, BiaRow>>), Table(<<HeaderRow, AnaRow>>)>>) }

Filenames ==
    { <<".", "B", ".", "P", "D", "F">>,
      <<"c", ".", "t", "x", "t">>,
      <<"p", "d", "f">> }

\* registros of a direct call: one that lacks most keys and holds a key
\* that is not in the mapping
PartialRegistro ==
      ("Fornecedor" :> Str(<<"C", "E", "L">>))
   @@ ("Valor da Conta" :> Float(5, 1))
   @@ ("Nota" :> Str(<<"x">>))

DirectDados == { <<>>, <<PartialRegistro, PartialRegistro>> }

DirectAbas == { ABA_DESTINO, "NoSuchSheet" }

ResultPaths ==
    {Join(UPLOAD_FOLDER, resultado_nome(ts)) : ts \in 0..MaxClock}

UploadPaths ==
    {Join(UPLOAD_FOLDER, secure_filename(f)) :
        f \in {g \in Filenames : allowed_file(g)}}

Paths == {TEMPLATE_XLSX} \cup ResultPaths \cup UploadPaths

\* the state of the server once app.run listens
Started ==
    /\ clock = 0
    /\ \E tpl \in TemplateFiles :
          fs = [path \in Paths |-> IF path = TEMPLATE_XLSX THEN tpl ELSE Absent]
    /\ pc = [p \in Threads |-> "idle"]
    /\ frame = [p \in Threads |-> EmptyFrame]

\* app.run(debug=True): Flask's development server is threaded by default
Init == Started /\ threaded = TRUE

\* the same server with one request served at a time
SeqInit == Started /\ threaded = FALSE

(***************************************************************************)
(* The clock.                                                              *)
(***************************************************************************)
\* a read of the wall clock yields second now: time has not run backwards
\* since the last read
Reads(now) ==
    /\ now \in clock..MaxClock
    /\ clock' = now

(***************************************************************************)
(* index                                                                   *)
(***************************************************************************)
\* the server starts a thread for each request, the next thread for the next
\* request; when the server is not threaded no other request is under way
\* ("done": the response is sent)
Accepts(p) ==
    /\ pc[p] = "idle"
    /\ \A q \in Threads : q < p => pc[q] # "idle"
    /\ threaded \/ \A q \in Threads \ {p} : pc[q] \in {"idle", "done"}

Goto(p, label) == pc' = [pc EXCEPT ![p] = label]

\* the request ends with response r
Respond(p, f, r) ==
    /\ frame' = [frame EXCEPT ![p] = [f EXCEPT !.response = r]]
    /\ Goto(p, "done")

\* GET
IndexGet(p) ==
    /\ Accepts(p)
    /\ Respond(p, [EmptyFrame EXCEPT !.caller = "index"],
               [kind |-> "render_template", flash |-> "", path |-> NoPath])
    /\ UNCHANGED <<clock, fs, threaded>>

\* POST without the part pdf_file
PostNoFile(p) ==
    /\ Accepts(p)
    /\ Respond(p, [EmptyFrame EXCEPT !.caller = "index"],
               Redirect("Nenhum arquivo enviado"))
    /\ UNCHANGED <<clock, fs, threaded>>

\* POST with an empty file name
PostEmptyName(p) ==
    /\ Accepts(p)
    /\ Respond(p, [EmptyFrame EXCEPT !.caller = "index"],
               Redirect("Nome de arquivo inválido"))
    /\ UNCHANGED <<clock, fs, threaded>>

\* POST of pdf under a non-empty file name: saved when allowed
PostFile(p, filename, pdf) ==
    /\ Accepts(p)
    /\ IF allowed_file(filename)
       THEN LET saved == Join(UPLOAD_FOLDER, secure_filename(filename))
            IN  /\ fs' = [fs EXCEPT ![saved] = PdfFile(pdf)]
                /\ frame' = [frame EXCEPT ![p] =
                               [EmptyFrame EXCEPT !.caller = "index",
                                                  !.saved_pdf_path = saved]]
                /\ Goto(p, "extract")
       ELSE /\ Respond(p, [EmptyFrame EXCEPT !.caller = "index"],
                       Redirect("Tipo de arquivo não permitido. Envie um PDF."))
            /\ UNCHANGED fs
    /\ UNCHANGED <<clock, threaded>>

\* what pdfplumber.open reads at path
PdfAt(path) == IF fs[path].kind = "pdf" THEN fs[path].pdf ELSE NoPdf

\* dados = extrair_dados_do_pdf(saved_pdf_path), and its except clause
Extract(p) ==
    /\ pc[p] = "extract"
    /\ \E now \in 0..MaxClock :
          /\ Reads(now)
          /\ LET got == extrair_dados_do_pdf(PdfAt(frame[p].saved_pdf_path), now)
             IN  IF got.raised
                 THEN Respond(p, [frame[p] EXCEPT !.raised = "ExtractionError"],
                              Redirect("Erro ao extrair dados do PDF"))
                 ELSE /\ frame' = [frame EXCEPT ![p].dados = got.registros]
                      /\ Goto(p, "check_dados")
    /\ UNCHANGED <<fs, threaded>>

\* the test of dados with its branches swapped away: never true
NoDadosNever(dados) == FALSE

\* not dados
NoDados(dados) == dados = <<>>

\* if not dados: ... ; else the call of preencher_planilha_template
CheckDados(p) ==
    /\ pc[p] = "check_dados"
    /\ IF NoDados(frame[p].dados)
       THEN Respond(p, frame[p], Redirect("Nenhum registro encontrado no PDF"))
       ELSE /\ frame' = [frame EXCEPT ![p].caminho_template = TEMPLATE_XLSX,
                                      ![p].aba_destino = ABA_DESTINO]
            /\ Goto(p, "timestamp")
    /\ UNCHANGED <<clock, fs, threaded>>

(***************************************************************************)
(* preencher_planilha_template                                             *)
(***************************************************************************)
\* a call that does not come from index
CallFiller(p, dados, aba_destino) ==
    /\ Accepts(p)
    /\ frame' = [frame EXCEPT ![p] =
                   [EmptyFrame EXCEPT !.caller = "direct",
                                      !.dados = dados,
                                      !.caminho_template = TEMPLATE_XLSX,
                                      !.aba_destino = aba_destino]]
    /\ Goto(p, "timestamp")
    /\ UNCHANGED <<clock, fs, threaded>>

\* the call raises exc and index has no except clause for it
RaiseUncaught(p, exc) ==
    Respond(p, [frame[p] EXCEPT !.raised = exc], NoResponse)

\* the call raises exc: index catches it, flashes and redirects
Raise(p, exc) ==
    Respond(p, [frame[p] EXCEPT !.raised = exc],
            IF frame[p].caller = "index"
            THEN Redirect("Erro ao preencher a planilha modelo")
            ELSE NoResponse)

\* resultado_path for timestamp = int(time.time())
Resultado(timestamp) == Join(UPLOAD_FOLDER, resultado_nome(timestamp))

Timestamp(p) ==
    /\ pc[p] = "timestamp"
    /\ \E timestamp \in 0..MaxClock :
          /\ Reads(timestamp)
          /\ frame' = [frame EXCEPT ![p].resultado_path = Resultado(timestamp)]
    /\ Goto(p, "copyfile")
    /\ UNCHANGED <<fs, threaded>>

\* a copy that keeps a file already at dst
CopiedUnlessExists(src, dst) ==
    IF fs[dst].kind = "absent" THEN fs[src] ELSE fs[dst]

\* the file at dst after copyfile(src, dst): dst is overwritten
Copied(src, dst) == fs[src]

\* shutil.copyfile(caminho_template, resultado_path)
CopyFile(p) ==
    /\ pc[p] = "copyfile"
    /\ IF fs[frame[p].caminho_template].kind = "absent"
       THEN Raise(p, "FileNotFoundError") /\ UNCHANGED fs
       ELSE /\ fs' = [fs EXCEPT ![frame[p].resultado_path] =
                                     Copied(frame[p].caminho_template,
                                            frame[p].resultado_path)]
            /\ Goto(p, "load_workbook")
            /\ UNCHANGED frame
    /\ UNCHANGED <<clock, threaded>>

\* wb = load_workbook(resultado_path)
LoadWorkbook(p) ==
    /\ pc[p] = "load_workbook"
    /\ IF fs[frame[p].resultado_path].kind # "xlsx"
       THEN Raise(p, "InvalidFileException")
       ELSE /\ frame' = [frame EXCEPT ![p].wb = fs[frame[p].resultado_path].wb]
            /\ Goto(p, "sheet")
    /\ UNCHANGED <<clock, fs, threaded>>

\* the cells of ws = wb[aba_destino]
Ws(f) == f.wb[SheetIndex(f.wb, f.aba_destino)].cells

\* the test of the sheet name left out
SheetMissingNever(f) == FALSE

\* aba_destino not in wb.sheetnames
SheetMissing(f) == f.aba_destino \notin sheetnames(f.wb)

\* if aba_destino not in wb.sheetnames: raise ValueError; ws = wb[aba_destino]
\* (KeyError for a sheet the workbook lacks); start_row
SheetLookup(p) ==
    /\ pc[p] = "sheet"
    /\ IF SheetMissing(frame[p])
       THEN Raise(p, "ValueError")
       ELSE IF frame[p].aba_destino \notin sheetnames(frame[p].wb)
       THEN Raise(p, "KeyError")
       ELSE /\ frame' = [frame EXCEPT ![p].start_row = StartRow(Ws(frame[p]))]
            /\ Goto(p, "write")
    /\ UNCHANGED <<clock, fs, threaded>>

\* the two loops over dados and colunas_mapeamento
Write(p) ==
    /\ pc[p] = "write"
    /\ LET f == frame[p]
           k == SheetIndex(f.wb, f.aba_destino)
       IN  frame' = [frame EXCEPT ![p].wb[k].cells =
                        WriteRows(Ws(f), f.start_row, f.dados, 0)]
    /\ Goto(p, "save")
    /\ UNCHANGED <<clock, fs, threaded>>

\* a save over the template
SaveTargetTemplate(f) == f.caminho_template

\* the path wb.save writes
SaveTarget(f) == f.resultado_path

\* wb.save(resultado_path)
Save(p) ==
    /\ pc[p] = "save"
    /\ fs' = [fs EXCEPT ![SaveTarget(frame[p])] = Xlsx(frame[p].wb)]
    /\ Goto(p, "return")
    /\ UNCHANGED <<clock, frame, threaded>>

\* return resultado_path, and in index send_file(resultado_path)
Return(p) ==
    /\ pc[p] = "return"
    /\ Respond(p, frame[p],
               [kind |-> IF frame[p].caller = "index" THEN "send_file"
                         ELSE "returned",
                flash |-> "", path |-> frame[p].resultado_path])
    /\ UNCHANGED <<clock, fs, threaded>>

Request(p) ==
    \/ IndexGet(p)
    \/ PostNoFile(p)
    \/ PostEmptyName(p)
    \/ \E filename \in Filenames, pdf \in UploadPdfs : PostFile(p, filename, pdf)
    \/ \E dados \in DirectDados, aba \in DirectAbas : CallFiller(p, dados, aba)

Step(p) ==
    \/ Extract(p)
    \/ CheckDados(p)
    \/ Timestamp(p)
    \/ CopyFile(p)
    \/ LoadWorkbook(p)
    \/ SheetLookup(p)
    \/ Write(p)
    \/ Save(p)
    \/ Return(p)

\* threads of the server run requests concurrently
Next == \E p \in Threads : Request(p) \/ Step(p)

Spec == Init /\ [][Next]_vars

SeqSpec == SeqInit /\ [][Next]_vars

(***************************************************************************)
(* The extractor on its own: a request whose upload has just been saved,   *)
(* for every document of ExtractPdfs, up to the call of the filler.        *)
(***************************************************************************)
TextsUpTo(alphabet, n) == UNION {[1..k -> alphabet] : k \in 0..n}

MoneyAlphabet == {"R", "$", " ", ".", ",", "1", "0", "-", "x"}

MoneyCells ==
    {None}
    \cup {Str(cs) : cs \in TextsUpTo(MoneyAlphabet, MaxCellLen)}
    \cup {Str(<<"1", ".", "2", "3", "4", ",", "5", "6">>),
          Str(<<"R", "$", " ", "4", "5", ",", "0", "0">>),
          Str(<<" ", "R", "$", "1", "0", ".", "0", "0", "0", ",", "5", "\n">>),
          Str(<<"1", ",", "2", "3", "4", ".", "5", "6">>)}

\* one data row: no cell at index 14 (2, 4 or 14 cells), or one of MoneyCells
MoneyPdfs ==
    {Pdf(<<Table(<<HeaderRow, Row(n, Str(<<"A", "N", "A">>), None, None)>>)>>) :
        n \in {2, 4, 14}}
    \cup {Pdf(<<Table(<<HeaderRow,
                        Row(n, Str(<<"A", "N", "A">>), Str(<<"7">>), c)>>)>>) :
            n \in {15, 16}, c \in MoneyCells}

NameRows ==
    { NoneRow,
      Row(0, None, None, None),
      Row(1, None, None, None),
      Row(2, None, None, None),
      Row(2, Str(<<" ", "\n">>), None, None),
      Row(4, Str(<<" ", "N", "o", "m", "e", " ", "d", "o", " ", "P", "r", "o",
                   "f", "i", "s", "s", "i", "o", "n", "a", "l", " ">>),
          Str(<<"9">>), None),
      Row(2, Str(<<"C", "e", "l">>), None, None),
      AnaRow,
      BiaRow }

RowsUpTo(n) == UNION {[1..k -> NameRows] : k \in 0..n}

\* a first row that is a header or looks like data, then up to MaxRows rows
NameTables ==
    {NoTable, Table(<<>>)}
    \cup {Table(<<first>> \o rows) :
            first \in {HeaderRow, AnaRow}, rows \in RowsUpTo(MaxRows)}

LastPages ==
    { NoTable, Table(<<HeaderRow>>), Table(<<HeaderRow, BiaRow, NoneRow>>) }

NamePdfs ==
    {Pdf(<<t>>) : t \in NameTables}
    \cup {Pdf(<<t, u>>) : t \in NameTables, u \in LastPages}

ExtractPdfs == {NoPdf} \cup MoneyPdfs \cup NamePdfs

UploadPath == Join(UPLOAD_FOLDER, secure_filename(<<".", "B", ".", "P", "D", "F">>))

\* thread 1 has saved the upload and is about to call extrair_dados_do_pdf
ExtractInit ==
    /\ clock = 0
    /\ threaded = TRUE
    /\ \E pdf \in ExtractPdfs :
          fs = [path \in Paths |->
                  IF path = TEMPLATE_XLSX
                  THEN Xlsx(<<[name |-> ABA_DESTINO, cells |-> HeaderCells]>>)
                  ELSE IF path = UploadPath THEN PdfFile(pdf) ELSE Absent]
    /\ pc = [p \in Threads |-> IF p = 1 THEN "extract" ELSE "idle"]
    /\ frame = [p \in Threads |->
                  IF p = 1
                  THEN [EmptyFrame EXCEPT !.caller = "index",
                                          !.saved_pdf_path = UploadPath]
                  ELSE EmptyFrame]

ExtractNext == \E p \in Threads : Extract(p) \/ CheckDados(p)

ExtractSpec == ExtractInit /\ [][ExtractNext]_vars

(***************************************************************************)
(* Properties.                                                             *)
(***************************************************************************)
\* thread p has called extrair_dados_do_pdf on its upload and the call is over
Extracted(p) ==
    /\ frame[p].caller = "index"
    /\ frame[p].saved_pdf_path # NoPath
    /\ pc[p] # "extract"

\* the document thread p uploaded
Uploaded(p) == PdfAt(frame[p].saved_pdf_path)

\* the rows after the first of every page's table, in page and row order
RECURSIVE RowsAfterHeaders(_)
RowsAfterHeaders(pages) ==
    IF pages = <<>> THEN <<>>
    ELSE (IF Head(pages).none \/ Len(Head(pages).rows) < 2 THEN <<>>
          ELSE Tail(Head(pages).rows))
         \o RowsAfterHeaders(Tail(pages))

\* at least 2 cells, and a trimmed cell at index 1 that is neither empty nor
\* the header label in any case
Qualifies(row) ==
    /\ ~row.none
    /\ Len(row.cells) >= 2
    /\ row.cells[2].t = "str"
    /\ Strip(row.cells[2].s) # <<>>
    /\ Lower(Strip(row.cells[2].s)) # Lower(HeaderLabel)

QualifyingRows(pdf) == SelectSeq(RowsAfterHeaders(pdf.pages), Qualifies)

\* C6: the extractor outputs exactly one Record per qualifying row (at least
\* 2 cells, trimmed cell at index 1 non-empty and not the header label in any
\* case) of the rows after each page's first, in page order and row order.
C6_OneRecordPerQualifyingRow ==
    \A p \in Threads :
        Extracted(p) /\ Uploaded(p).readable =>
            LET rows == QualifyingRows(Uploaded(p))
                dados == frame[p].dados
            IN  /\ Len(dados) = Len(rows)
                /\ \A i \in 1..Len(rows) :
                      dados[i]["Fornecedor"] = Str(Strip(rows[i].cells[2].s))

\* two pages, rows that are left out, and two Records, the second page's last
C6_Witness ==
    \E p \in Threads :
        /\ Extracted(p)
        /\ Len(Uploaded(p).pages) = 2
        /\ Len(RowsAfterHeaders(Uploaded(p).pages)) = 4
        /\ Len(frame[p].dados) = 2
        /\ frame[p].dados[2]["Fornecedor"] = Str(<<"B", "I", "A">>)
        /\ frame[p].dados[1]["Fornecedor"] = Str(<<"C", "e", "l">>)

CountOf(cs, c) == Cardinality({i \in 1..Len(cs) : cs[i] = c})

DigitsAfter(cs, c) ==
    Cardinality({i \in 1..Len(cs) :
                    IsDigit(cs[i]) /\ \E j \in 1..(i - 1) : cs[j] = c})

\* what the claim says of the amount v of a Record made from row
MoneyAsClaimed(row, v) ==
    IF Len(row.cells) < 15 \/ row.cells[15].t # "str" THEN v = Float(0, 0)
    ELSE LET cs == row.cells[15].s
             digits == SelectSeq(cs, IsDigit)
         IN  \* empty, whitespace only, currency symbol only
             /\ (\A i \in 1..Len(cs) : cs[i] \in Whitespace \cup {"R", "$"})
                    => v = Float(0, 0)
             \* malformed: a character no amount holds, or two decimal commas
             /\ (\E i \in 1..Len(cs) :
                    ~IsDigit(cs[i])
                    /\ cs[i] \notin Whitespace \cup {"R", "$", ".", ",", "-", "+"})
                    => v = Float(0, 0)
             /\ CountOf(cs, ",") >= 2 => v = Float(0, 0)
             /\ digits = <<>> => v = Float(0, 0)
             \* digits with thousands points and at most one decimal comma
             /\ (/\ digits # <<>>
                 /\ \A i \in 1..Len(cs) : IsDigit(cs[i]) \/ cs[i] \in {".", ","}
                 /\ CountOf(cs, ",") <= 1)
                    => v = Float(DigitsValue(digits), DigitsAfter(cs, ","))
             /\ cs = <<"1", ".", "2", "3", "4", ",", "5", "6">>
                    => v = Float(123456, 2)
             /\ cs = <<"R", "$", " ", "4", "5", ",", "0", "0">>
                    => v = Float(45, 0)

\* C7: monetary parsing never fails a row: every qualifying row yields its
\* Record whatever the cell at index 14 holds, with Valor da Conta = Valor do
\* Pagamento = 0.0 when the cell is absent, empty or does not parse and the
\* parsed number otherwise, and no parse exception leaves the extractor.
C7_MoneyNeverFailsARow ==
    \A p \in Threads :
        Extracted(p) /\ Uploaded(p).readable =>
            LET rows == QualifyingRows(Uploaded(p))
                dados == frame[p].dados
            IN  /\ frame[p].raised = ""
                /\ DOMAIN dados = DOMAIN rows
                /\ \A i \in DOMAIN dados :
                      /\ dados[i]["Valor da Conta"].t = "float"
                      /\ dados[i]["Valor do Pagamento"] = dados[i]["Valor da Conta"]
                      /\ MoneyAsClaimed(rows[i], dados[i]["Valor da Conta"])

\* a row whose cell at index 14 is malformed has its Record, with 0.0
C7_Witness ==
    \E p \in Threads :
        /\ Extracted(p)
        /\ Len(frame[p].dados) = 1
        /\ Len(QualifyingRows(Uploaded(p))) = 1
        /\ Len(QualifyingRows(Uploaded(p))[1].cells) = 15
        /\ QualifyingRows(Uploaded(p))[1].cells[15] = Str(<<"1", ",", "x">>)
        /\ frame[p].dados[1]["Valor da Conta"] = Float(0, 0)
\* thread p is inside preencher_planilha_template with resultado_path set
InFiller(p) ==
    pc[p] \in {"copyfile", "load_workbook", "sheet", "write", "save", "return"}

\* C1: concurrent invocations of the filler never collide on the output
\* file: two invocations that are under way at the same time, also when they
\* started within the same clock second, have different result paths.
C1_DistinctResultPaths ==
    \A p, q \in Threads :
        p # q /\ InFiller(p) /\ InFiller(q) =>
            frame[p].resultado_path # frame[q].resultado_path

\* C2: no step of any invocation, successful or failing, changes the file at
\* the template path.
C2_TemplateNeverModified ==
    [][fs'[TEMPLATE_XLSX] = fs[TEMPLATE_XLSX]]_vars

\* a second invocation has saved a result that differs from the template
C2_Witness ==
    \E p \in Threads :
        /\ pc[p] = "return"
        /\ \E q \in Threads \ {p} : pc[q] = "done"
        /\ frame[p].caminho_template = TEMPLATE_XLSX
        /\ fs[frame[p].resultado_path].kind = "xlsx"
        /\ fs[frame[p].resultado_path] # fs[TEMPLATE_XLSX]

\* the write loops of thread p's call are over and nothing was raised
Filled(p) ==
    \/ pc[p] \in {"save", "return"}
    \/ pc[p] = "done" /\ frame[p].response.kind \in {"returned", "send_file"}

\* the cells of the sheet called aba in workbook wb
CellsOf(wb, aba) == wb[SheetIndex(wb, aba)].cells

\* the sheet aba_destino of the template, as it is on disk
TemplateCells(f) == CellsOf(fs[f.caminho_template].wb, f.aba_destino)

MappedColumn ==
      ("Fornecedor" :> 2) @@ ("Categoria" :> 3) @@ ("Conta Corrente" :> 4)
   @@ ("Valor da Conta" :> 5) @@ ("Projeto" :> 7) @@ ("Data de Emissão" :> 8)
   @@ ("Data de Registro" :> 9) @@ ("Data de Vencimento" :> 10)
   @@ ("Valor do Pagamento" :> 13) @@ ("Data de Conciliação" :> 17)
   @@ ("Observações" :> 18) @@ ("Chave Pix" :> 36)
   @@ ("Departamento (100%)" :> 49)

MappedColumns == {MappedColumn[k] : k \in DOMAIN MappedColumn}

\* C4: in every appended row each field is in the column of the fixed
\* mapping, and no cell of another column (F, K, L, N-P, S-AI, AK-AV) is
\* written: those columns keep the template's values.
C4_FixedColumns ==
    \A p \in Threads :
        Filled(p) =>
            LET f == frame[p]
                T == TemplateCells(f)
                W == CellsOf(f.wb, f.aba_destino)
            IN  /\ \A i \in 0..(Len(f.dados) - 1), k \in DOMAIN MappedColumn :
                      /\ <<f.start_row + i, MappedColumn[k]>> \in DOMAIN W
                      /\ W[<<f.start_row + i, MappedColumn[k]>>]
                            = RegistroGet(f.dados[i + 1], k)
                /\ \A rc \in DOMAIN W :
                      rc[2] \notin MappedColumns => rc \in DOMAIN T /\ W[rc] = T[rc]
                /\ \A rc \in DOMAIN T : rc[2] \notin MappedColumns => rc \in DOMAIN W
                /\ Cardinality(DOMAIN W \ DOMAIN T) = 13 * Len(f.dados)

\* extracted records written after a template with formulas in column F
C4_Witness ==
    \E p \in Threads :
        /\ pc[p] = "return"
        /\ frame[p].caller = "index"
        /\ Len(frame[p].dados) = 2
        /\ <<4, 6>> \in DOMAIN TemplateCells(frame[p])
        /\ CellsOf(frame[p].wb, ABA_DESTINO)[<<6, 36>>] = Str(<<"1", "1">>)
        /\ CellsOf(frame[p].wb, ABA_DESTINO)[<<5, 13>>] = Float(45, 0)

\* thread p has called the filler on a template that lacks the sheet
LacksSheet(p) ==
    /\ frame[p].caminho_template # NoPath
    /\ fs[frame[p].caminho_template].kind = "xlsx"
    /\ frame[p].aba_destino \notin sheetnames(fs[frame[p].caminho_template].wb)

\* C5: when the sheet name is not among the template's sheets the filler
\* raises its ValueError and returns no path, before any cell is written or
\* saved, and the copy it made stays on disk.
C5_MissingSheetRaises ==
    \A p \in Threads :
        LacksSheet(p) =>
            /\ pc[p] \notin {"write", "save", "return"}
            /\ frame[p].response.kind \notin {"returned", "send_file"}
            /\ pc[p] \in {"load_workbook", "sheet"} =>
                  fs[frame[p].resultado_path] = fs[frame[p].caminho_template]
            /\ pc[p] = "done" =>
                  /\ frame[p].raised = "ValueError"
                  /\ frame[p].response.path = NoPath
                  /\ frame[p].wb = fs[frame[p].caminho_template].wb
                  /\ frame[p].resultado_path \in ResultPaths
                  /\ fs[frame[p].resultado_path].kind = "xlsx"
                  /\ frame[p].caller = "index" =>
                        frame[p].response.kind = "redirect"

\* a call with the name of a sheet the template lacks has raised
C5_Witness ==
    \E p \in Threads :
        /\ LacksSheet(p)
        /\ pc[p] = "done"
        /\ frame[p].aba_destino = "NoSuchSheet"
        /\ frame[p].raised = "ValueError"
        /\ fs[frame[p].resultado_path].kind = "xlsx"

\* C8: a request whose extraction returns no record ends with a message and
\* never invokes the filler, so it creates no result file; the handler
\* invokes the filler only with at least one Record.
C8_EmptyExtractionIsNoOp ==
    \A p \in Threads :
        frame[p].caller = "index" =>
            /\ (\/ pc[p] = "timestamp"
                \/ InFiller(p)
                \/ frame[p].caminho_template # NoPath
                \/ frame[p].resultado_path # NoPath
                \/ frame[p].response.kind = "send_file")
                  => Len(frame[p].dados) >= 1
            /\ (/\ pc[p] = "done"
                /\ frame[p].saved_pdf_path # NoPath
                /\ frame[p].raised = ""
                /\ frame[p].dados = <<>>)
                  => /\ frame[p].response =
                            Redirect("Nenhum registro encontrado no PDF")
                     /\ frame[p].resultado_path = NoPath
                     /\ frame[p].caminho_template = NoPath

\* a request whose readable upload held no record has ended
C8_Witness ==
    \E p \in Threads :
        /\ pc[p] = "done"
        /\ frame[p].caller = "index"
        /\ frame[p].saved_pdf_path # NoPath
        /\ frame[p].raised = ""
        /\ frame[p].dados = <<>>
        /\ frame[p].response.flash = "Nenhum registro encontrado no PDF"

\* C9: a POST of an allowed file ends either with a redirect and a flashed
\* message (the extractor raised, returned no record, or the filler raised)
\* or with the download of the path the filler returned (both succeeded); no
\* exception of either leaves the handler.
C9_HandlerNeverCrashes ==
    \A p \in Threads :
        (/\ pc[p] = "done"
         /\ frame[p].caller = "index"
         /\ frame[p].saved_pdf_path # NoPath)
            => LET f == frame[p]
                   failed == f.raised # "" \/ f.dados = <<>>
               IN  /\ f.response.kind \in {"redirect", "send_file"}
                   /\ f.response.kind = "redirect" <=> failed
                   /\ f.response.kind = "redirect" =>
                         f.response.flash # "" /\ f.response.path = NoPath
                   /\ f.response.kind = "send_file" =>
                         /\ f.response.path = f.resultado_path
                         /\ f.resultado_path \in ResultPaths
                         /\ fs[f.resultado_path].kind = "xlsx"

\* a request whose filler call raised for a missing template has redirected
C9_Witness ==
    \E p \in Threads :
        /\ pc[p] = "done"
        /\ frame[p].caller = "index"
        /\ frame[p].raised = "FileNotFoundError"
        /\ frame[p].response.kind = "redirect"

\* C10: when a call returns, the file at its result path holds the
\* template's rows followed by that call's records only, also when an
\* earlier call of the same clock second wrote the same path.
C10_NoCompounding ==
    \A p \in Threads :
        pc[p] = "return" =>
            LET f == frame[p]
                file == fs[f.resultado_path]
                T == TemplateCells(f)
                m == max_row(T)
                N == Len(f.dados)
            IN  /\ file.kind = "xlsx"
                /\ sheetnames(file.wb) = sheetnames(fs[f.caminho_template].wb)
                /\ \A aba \in sheetnames(file.wb) \ {f.aba_destino} :
                      CellsOf(file.wb, aba) = CellsOf(fs[f.caminho_template].wb, aba)
                /\ LET F == CellsOf(file.wb, f.aba_destino)
                   IN  /\ RowsOf(F) = RowsOf(T) \cup (m + 1 .. m + N)
                       /\ Cardinality(DOMAIN F) = Cardinality(DOMAIN T) + 13 * N
                       /\ \A rc \in DOMAIN T : rc \in DOMAIN F /\ F[rc] = T[rc]
                       /\ \A i \in 0..(N - 1) :
                             F[<<m + 1 + i, 2>>] =
                                 RegistroGet(f.dados[i + 1], "Fornecedor")

\* a call returns the path an earlier call, of two records, returned too
C10_Witness ==
    \E p, q \in Threads :
        /\ p # q
        /\ pc[q] = "done"
        /\ frame[q].response.kind \in {"returned", "send_file"}
        /\ Len(frame[q].dados) = 2
        /\ pc[p] = "return"
        /\ frame[p].resultado_path = frame[q].response.path
        /\ Len(frame[p].dados) = 1
====
